---- MODULE Spec2Model ----
(***************************************************************************)
(* A model of the embedding service (src/embedding-service/main.py): the   *)
(* deterministic fallback embedder universal_embedding, the process-wide   *)
(* NumPy generator it seeds and draws from, the module-level MODEL         *)
(* reference, and the handlers of POST /embed, GET /health and             *)
(* GET /model-info.                                                        *)
(*                                                                         *)
(* Numbers.  A float is a fixed-point integer counting units of 1/Scale.   *)
(* SHA-256 is a small rolling hash whose leading SeedBits bits are the     *)
(* seed (the code keeps the leading 32 bits of 256), and the Mersenne      *)
(* Twister is a small linear congruential generator; the legacy Gaussian   *)
(* sampler keeps its cache of the second value of each generated pair.     *)
(***************************************************************************)
EXTENDS Integers, Sequences, FiniteSets, TLC

\* ---- bounds of the model ------------------------------------------------
\* Longest request text, largest explicit dimensionality of a direct call, and
\* the width of the seed in bits (the code's seed has 32).
MaxLen == 2
MaxDim == 2
SeedBits == 3

\* ---- program constants ----------------------------------------------------
\* def universal_embedding(text, dimensions=384)
DefaultDimensions == 384

\* Fixed-point resolution of a float (units per 1.0).
Scale == 1000

\* ---- texts ------------------------------------------------------------------
\* Code points a request body can carry: 'a', U+00E9 (two UTF-8 bytes) and the
\* lone surrogate U+D800, which json.loads produces from "\ud800".
Alphabet == {97, 233}
LoneSurrogate == <<55296>>

RECURSIVE SeqsUpTo(_, _)
SeqsUpTo(S, n) ==
    IF n = 0 THEN {<<>>}
    ELSE LET shorter == SeqsUpTo(S, n - 1)
         IN  shorter \cup {Append(s, c) : s \in {x \in shorter : Len(x) = n - 1}, c \in S}

\* Every string over the alphabet up to MaxLen, and one string that str.encode()
\* rejects.
Texts == SeqsUpTo(Alphabet, MaxLen) \cup {LoneSurrogate}

Dims == 1..MaxDim

IsSurrogate(cp) == cp >= 55296 /\ cp <= 57343

\* str.encode() raises UnicodeEncodeError on a surrogate code point.
Encodable(text) == \A i \in 1..Len(text) : ~IsSurrogate(text[i])

\* UTF-8 of one code point below U+10000.
EncodeChar(cp) ==
    IF cp < 128 THEN <<cp>>
    ELSE IF cp < 2048 THEN <<192 + (cp \div 64), 128 + (cp % 64)>>
    ELSE <<224 + (cp \div 4096), 128 + ((cp \div 64) % 64), 128 + (cp % 64)>>

RECURSIVE encode(_)
encode(text) ==
    IF text = <<>> THEN <<>>
    ELSE EncodeChar(Head(text)) \o encode(Tail(text))

\* ---- hashing and seeding ----------------------------------------------------
DigestBits == SeedBits + 2
DigestMod == 2 ^ DigestBits
SeedMod == 2 ^ SeedBits
Seeds == 0..(SeedMod - 1)

RECURSIVE Absorb(_, _)
Absorb(h, bytes) ==
    IF bytes = <<>> THEN h
    ELSE Absorb((h * 33 + Head(bytes) + 1) % DigestMod, Tail(bytes))

\* hashlib.sha256(bytes).hexdigest(), as a number below DigestMod.
sha256(bytes) == Absorb(5, bytes)

\* int(text_hash[:8], 16): the leading SeedBits bits of the digest.
SeedOfDigest(text_hash) == text_hash \div (DigestMod \div SeedMod)

\* A mutant: the whole digest is used as the seed.
SeedOfWholeDigest(text) == sha256(encode(text))

\* Lines 30-31 for an encodable text.
SeedOf(text) == SeedOfDigest(sha256(encode(text)))

\* ---- the generator (numpy.random, legacy RandomState) -------------------------
RngMod == 4 * SeedMod
Keys == 0..(RngMod - 1)

\* The second value of the pair generated at key k.
SecondOfPair(k) == ((7 * k + 2) % 9) - 4

\* The states the generator can be in: nothing cached, or the second value of
\* the pair generated at the current key cached.
RngStates ==
    {[key |-> k, has_gauss |-> FALSE, gauss |-> 0] : k \in Keys}
    \cup {[key |-> k, has_gauss |-> TRUE, gauss |-> SecondOfPair(k)] : k \in Keys}

\* At process start the generator is seeded from the operating system.
ProcessStart == {r \in RngStates : ~r.has_gauss}

\* A mutant: seeding leaves the cached Gaussian in place.
np_random_seed_keeps_cache(rng, seed) ==
    [key |-> (4 * seed + 1) % RngMod, has_gauss |-> rng.has_gauss, gauss |-> rng.gauss]

\* np.random.seed(seed) on generator rng: the key is initialised from the seed
\* alone and the cached Gaussian is dropped.
np_random_seed(rng, seed) ==
    [key |-> (4 * seed + 1) % RngMod, has_gauss |-> FALSE, gauss |-> 0]

NextKey(key) == (5 * key + 3) % RngMod

\* legacy_gauss: a cached value is returned and cleared; otherwise the key
\* advances, a pair is generated, one value is cached and the other returned.
\* Values are float64 draws in half units of the float32 grid.
legacy_gauss(rng) ==
    IF rng.has_gauss
    THEN [value |-> rng.gauss, rng |-> [key |-> rng.key, has_gauss |-> FALSE, gauss |-> 0]]
    ELSE LET k == NextKey(rng.key)
         IN  [value |-> (k % 9) - 4,
              rng |-> [key |-> k, has_gauss |-> TRUE, gauss |-> SecondOfPair(k)]]

\* np.random.randn(n): n draws in order (the first half of the draws, then the
\* rest from the state the first half leaves).
RECURSIVE randn(_, _)
randn(rng, n) ==
    IF n = 0 THEN [values |-> <<>>, rng |-> rng]
    ELSE IF n = 1
    THEN LET g == legacy_gauss(rng) IN [values |-> <<g.value>>, rng |-> g.rng]
    ELSE LET a == randn(rng, n \div 2)
             b == randn(a.rng, n - (n \div 2))
         IN  [values |-> a.values \o b.values, rng |-> b.rng]

\* ---- float arithmetic ----------------------------------------------------------
Abs(x) == IF x < 0 THEN -x ELSE x
Sign(x) == IF x < 0 THEN -1 ELSE 1

\* astype(np.float32) of one float64 draw (half units): round to nearest, ties
\* to even, onto the coarser grid; the result in units of 1/Scale.
Float32(x) ==
    LET q == Abs(x) \div 2
        r == Abs(x) % 2
        m == IF r = 0 THEN q ELSE IF q % 2 = 0 THEN q ELSE q + 1
    IN  Sign(x) * m * Scale

astype_float32(values) == [i \in 1..Len(values) |-> Float32(values[i])]

\* The sum of v[i]^2 over i in lo..hi.
RECURSIVE SumSq(_, _, _)
SumSq(v, lo, hi) ==
    IF lo > hi THEN 0
    ELSE IF lo = hi THEN v[lo] * v[lo]
    ELSE LET mid == (lo + hi) \div 2
         IN  SumSq(v, lo, mid) + SumSq(v, mid + 1, hi)

\* floor(sqrt(n)) by bisection on lo..hi.
RECURSIVE Bisect(_, _, _)
Bisect(n, lo, hi) ==
    IF lo >= hi THEN lo
    ELSE LET mid == (lo + hi + 1) \div 2
         IN  IF mid * mid <= n THEN Bisect(n, mid, hi) ELSE Bisect(n, lo, mid - 1)

Sqrt(n) == Bisect(n, 0, 46340)

\* np.linalg.norm(embedding), in units of 1/Scale.
linalg_norm(v) == Sqrt(SumSq(v, 1, Len(v)))

\* x / y for floats, rounded to nearest.
FloatDiv(x, y) == Sign(x) * ((2 * Abs(x) * Scale + y) \div (2 * y))

\* A mutant: the division is left out.
NormaliseSkipped(embedding) == embedding

\* Lines 37-39: divide by the norm when it is positive.
Normalise(embedding) ==
    LET norm == linalg_norm(embedding)
    IN  IF norm > 0
        THEN [i \in 1..Len(embedding) |-> FloatDiv(embedding[i], norm)]
        ELSE embedding

\* Lines 34-41 on generator state rng: draw, convert, normalise.
DrawEmbedding(rng, dimensions) ==
    LET drawn == randn(rng, dimensions)
        embedding == astype_float32(drawn.values)
    IN  [vector |-> Normalise(embedding), raw |-> embedding, rng |-> drawn.rng]

\* A mutant: the default dimensionality is used whatever the argument.
universal_embedding_default_dims(rng, text, dimensions) ==
    IF ~Encodable(text)
    THEN [raised |-> TRUE, vector |-> <<>>, raw |-> <<>>, rng |-> rng]
    ELSE LET e == DrawEmbedding(np_random_seed(rng, SeedOf(text)), DefaultDimensions)
         IN  [raised |-> FALSE, vector |-> e.vector, raw |-> e.raw, rng |-> e.rng]

\* A mutant: the generator is seeded with the whole digest.
universal_embedding_whole_digest(rng, text, dimensions) ==
    IF ~Encodable(text)
    THEN [raised |-> TRUE, vector |-> <<>>, raw |-> <<>>, rng |-> rng]
    ELSE LET e == DrawEmbedding(np_random_seed(rng, SeedOfWholeDigest(text)), dimensions)
         IN  [raised |-> FALSE, vector |-> e.vector, raw |-> e.raw, rng |-> e.rng]

\* universal_embedding(text, dimensions) run on the process-wide generator in
\* state rng: whether it raised, the list returned, the vector before
\* normalisation, and the generator state it leaves.
universal_embedding(rng, text, dimensions) ==
    IF ~Encodable(text)
    THEN [raised |-> TRUE, vector |-> <<>>, raw |-> <<>>, rng |-> rng]
    ELSE LET e == DrawEmbedding(np_random_seed(rng, SeedOf(text)), dimensions)
         IN  [raised |-> FALSE, vector |-> e.vector, raw |-> e.raw, rng |-> e.rng]

\* ---- state ------------------------------------------------------------------
\* MODEL      the module-level model reference (lines 43-53)
\* rng        the process-wide generator np.random
\* last       what the most recent call or request returned
\* first      the first recorded direct call of universal_embedding
\* again      the most recent later call with the arguments of first
\* restarted  the process was restarted after the call recorded in first
\* thr        the threads running universal_embedding concurrently
VARIABLES MODEL, rng, last, first, again, restarted, thr
vars == <<MODEL, rng, last, first, again, restarted, thr>>

None == [loaded |-> FALSE, dim |-> 0]

\* The trained model, whatever its output dimension.
LoadedModels == {[loaded |-> TRUE, dim |-> k] : k \in {1, DefaultDimensions}}

NoCall == [kind |-> "none"]

CallRecord(text, dimensions, ue) ==
    [kind |-> "call", text |-> text, dimensions |-> dimensions, raised |-> ue.raised,
     vector |-> ue.vector, raw |-> ue.raw]

ThreadIds == {1, 2}
NoThreads ==
    [i \in ThreadIds |->
       [pc |-> "idle", text |-> <<>>, dimensions |-> 0, seed |-> 0, result |-> <<>>]]

\* ---- POST /embed ------------------------------------------------------------
\* MODEL.encode(text).tolist(): the trained model is opaque; a vector of its
\* dimension, derived from the text.
MODEL_encode(model, text) == [i \in 1..model.dim |-> (((Len(text) + i) % 3) - 1) * Scale]

\* EmbedResponse(vector=..., model=..., dims=len(vector)), returned with 200.
EmbedResponse(text, vector, model_name, producer, raised_in_try) ==
    [kind |-> "embed", text |-> text, status |-> 200, vector |-> vector,
     model |-> model_name, dims |-> Len(vector), producer |-> producer,
     raised_in_try |-> raised_in_try]

\* An exception that leaves the handler: the framework answers 500.
ServerError(text) ==
    [kind |-> "embed", text |-> text, status |-> 500, vector |-> <<>>,
     model |-> "", dims |-> 0, producer |-> "none", raised_in_try |-> TRUE]

\* Lines 58-65: the body of the try block, up to the construction of the response.
TryBlock(model, g, text, encode_raises) ==
    IF model # None
    THEN IF encode_raises
         THEN [raised |-> TRUE, vector |-> <<>>, model_name |-> "", producer |-> "none",
               rng |-> g]
         ELSE [raised |-> FALSE, vector |-> MODEL_encode(model, text),
               model_name |-> "all-MiniLM-L6-v2", producer |-> "MODEL.encode", rng |-> g]
    ELSE LET ue == universal_embedding(g, text, DefaultDimensions)
         IN  [raised |-> ue.raised, vector |-> ue.vector,
              model_name |-> "universal-hash-embedding",
              producer |-> "universal_embedding", rng |-> ue.rng]

\* A mutant: the except branch labels its vector with the trained model's name.
ExceptBlockMislabelled(g, text) ==
    LET ue == universal_embedding(g, text, DefaultDimensions)
    IN  IF ue.raised
        THEN [response |-> ServerError(text), rng |-> ue.rng]
        ELSE [response |-> EmbedResponse(text, ue.vector, "all-MiniLM-L6-v2",
                                         "universal_embedding", TRUE),
              rng |-> ue.rng]

\* Lines 72-80: the except branch.
ExceptBlock(g, text) ==
    LET ue == universal_embedding(g, text, DefaultDimensions)
    IN  IF ue.raised
        THEN [response |-> ServerError(text), rng |-> ue.rng]
        ELSE [response |-> EmbedResponse(text, ue.vector, "fallback-universal",
                                         "universal_embedding", TRUE),
              rng |-> ue.rng]

\* The handler on (model, generator state g): the response and the generator
\* state it leaves.
Handle(model, g, text, encode_raises) ==
    LET try == TryBlock(model, g, text, encode_raises)
    IN  IF ~try.raised
        THEN [response |-> EmbedResponse(text, try.vector, try.model_name,
                                         try.producer, FALSE),
              rng |-> try.rng]
        ELSE ExceptBlock(try.rng, text)

\* POST /embed with body {"text": text}; encode_raises: MODEL.encode raises.
embed_text(text, encode_raises) ==
    /\ encode_raises => MODEL # None
    /\ LET out == Handle(MODEL, rng, text, encode_raises)
       IN  /\ last' = out.response
           /\ rng' = out.rng
    /\ UNCHANGED <<MODEL, first, again, restarted, thr>>

\* ---- GET /health, GET /model-info -----------------------------------------------
\* A mutant: model_loaded is reported the wrong way round.
HealthInverted(model) ==
    [kind |-> "health", status |-> "healthy", model_loaded |-> (model = None),
     model_type |-> IF model = None THEN "sentence-transformers" ELSE "universal-fallback"]

\* What GET /health returns (a loaded model is truthy).
Health(model) ==
    [kind |-> "health", status |-> "healthy", model_loaded |-> (model # None),
     model_type |-> IF model.loaded THEN "sentence-transformers" ELSE "universal-fallback"]

\* What GET /model-info returns.
ModelInfo(model) ==
    IF model # None
    THEN [kind |-> "model-info", model_name |-> "SentenceTransformer",
          embedding_dimension |-> model.dim, status |-> "loaded"]
    ELSE [kind |-> "model-info", model_name |-> "universal-fallback",
          embedding_dimension |-> 384, status |-> "fallback"]

health ==
    /\ last' = Health(MODEL)
    /\ UNCHANGED <<MODEL, rng, first, again, restarted, thr>>

model_info ==
    /\ last' = ModelInfo(MODEL)
    /\ UNCHANGED <<MODEL, rng, first, again, restarted, thr>>

\* ---- the service ----------------------------------------------------------------
\* After module load MODEL is the trained model or None; the generator is in
\* one of two of its start states.
Init ==
    /\ MODEL \in {None} \cup LoadedModels
    /\ rng \in {r \in ProcessStart : r.key < 2}
    /\ last = NoCall
    /\ first = NoCall
    /\ again = NoCall
    /\ restarted = FALSE
    /\ thr = NoThreads

Next ==
    \/ \E text \in Texts, encode_raises \in BOOLEAN : embed_text(text, encode_raises)
    \/ health
    \/ model_info

Spec == Init /\ [][Next]_vars

\* ---- direct calls, one after another ----------------------------------------------
\* universal_embedding(text, dimensions) called directly; first keeps the first
\* call, last the most recent one.
universal_call(text, dimensions) ==
    /\ LET ue == universal_embedding(rng, text, dimensions)
           rec == CallRecord(text, dimensions, ue)
       IN  /\ last' = rec
           /\ first' = IF first = NoCall THEN rec ELSE first
           /\ rng' = ue.rng
    /\ UNCHANGED <<MODEL, again, restarted, thr>>

InitPairs ==
    /\ MODEL = None
    /\ rng \in {r \in ProcessStart : r.key < 2}
    /\ last = NoCall
    /\ first = NoCall
    /\ again = NoCall
    /\ restarted = FALSE
    /\ thr = NoThreads

NextPairs == \E text \in Texts, dimensions \in Dims : universal_call(text, dimensions)

SpecPairs == InitPairs /\ [][NextPairs]_vars

\* ---- repeated calls among other uses of the generator --------------------------------
\* universal_embedding(text, dimensions) called directly; first keeps the first
\* call, again the most recent later call with the same arguments.
repeated_call(text, dimensions) ==
    /\ LET ue == universal_embedding(rng, text, dimensions)
           rec == CallRecord(text, dimensions, ue)
       IN  /\ first' = IF first = NoCall THEN rec ELSE first
           /\ again' = IF /\ first # NoCall
                          /\ first.text = text
                          /\ first.dimensions = dimensions
                       THEN rec ELSE again
           /\ rng' = ue.rng
    /\ UNCHANGED <<MODEL, last, restarted, thr>>

\* Other code of the process seeds the process-wide generator.
other_seed(seed) ==
    /\ rng' = np_random_seed(rng, seed)
    /\ UNCHANGED <<MODEL, last, first, again, restarted, thr>>

\* Other code of the process draws one value from the process-wide generator.
other_draw ==
    /\ rng' = legacy_gauss(rng).rng
    /\ UNCHANGED <<MODEL, last, first, again, restarted, thr>>

\* The process ends and a new one starts: a freshly seeded generator.
restart ==
    /\ rng' \in ProcessStart
    /\ restarted' = (first # NoCall)
    /\ UNCHANGED <<MODEL, last, first, again, thr>>

InitCalls ==
    /\ MODEL = None
    /\ rng \in ProcessStart
    /\ last = NoCall
    /\ first = NoCall
    /\ again = NoCall
    /\ restarted = FALSE
    /\ thr = NoThreads

NextCalls ==
    \/ \E text \in Texts, dimensions \in Dims : repeated_call(text, dimensions)
    \/ \E seed \in Seeds : other_seed(seed)
    \/ other_draw
    \/ restart

SpecCalls == InitCalls /\ [][NextCalls]_vars

\* ---- concurrent calls ------------------------------------------------------------
\* Each thread runs universal_embedding(text, dimensions) once; a thread can be
\* preempted between any two of: hashing (lines 30-31), np.random.seed
\* (line 33), np.random.randn (line 34).  Normalisation is local to the thread.
thread_hash(i) ==
    /\ thr[i].pc = "start"
    /\ thr' = [thr EXCEPT ![i].pc = IF Encodable(thr[i].text) THEN "hashed" ELSE "raised",
                          ![i].seed = IF Encodable(thr[i].text) THEN SeedOf(thr[i].text)
                                      ELSE 0]
    /\ UNCHANGED <<MODEL, rng, last, first, again, restarted>>

thread_seed(i) ==
    /\ thr[i].pc = "hashed"
    /\ rng' = np_random_seed(rng, thr[i].seed)
    /\ thr' = [thr EXCEPT ![i].pc = "seeded"]
    /\ UNCHANGED <<MODEL, last, first, again, restarted>>

thread_draw(i) ==
    /\ thr[i].pc = "seeded"
    /\ LET e == DrawEmbedding(rng, thr[i].dimensions)
       IN  /\ rng' = e.rng
           /\ thr' = [thr EXCEPT ![i].pc = "done", ![i].result = e.vector]
    /\ UNCHANGED <<MODEL, last, first, again, restarted>>

InitThreads ==
    /\ MODEL = None
    /\ rng \in {r \in ProcessStart : r.key < 2}
    /\ last = NoCall
    /\ first = NoCall
    /\ again = NoCall
    /\ restarted = FALSE
    /\ \E t1 \in Texts, d \in Dims : \E t2 \in Texts \ {t1} :
           thr = [i \in ThreadIds |->
                    [pc |-> "start", text |-> IF i = 1 THEN t1 ELSE t2,
                     dimensions |-> d, seed |-> 0, result |-> <<>>]]

NextThreads ==
    \/ \E i \in ThreadIds : thread_hash(i)
    \/ \E i \in ThreadIds : thread_seed(i)
    \/ \E i \in ThreadIds : thread_draw(i)

SpecThreads == InitThreads /\ [][NextThreads]_vars

\* ---- properties ------------------------------------------------------------------
IsCall(r) == r.kind = "call"
Returned(r) == r.kind = "call" /\ ~r.raised
IsResponse(r) == r.kind = "embed" /\ r.status = 200
TheCall == \E text \in Texts, dimensions \in Dims : repeated_call(text, dimensions)
SquaredNorm(v) == SumSq(v, 1, Len(v))
NormTolerance == (Scale * Scale) \div 100

\* C1 (SpecCalls).  Determinism: a later call of universal_embedding with the
\* arguments of an earlier one returns the same vector element for element (and
\* raises exactly when the earlier one raised), whatever calls with other
\* arguments, seedings of and draws from the generator by other code, and
\* restarts of the process happened before or between the two.
C1_Determinism ==
    again # NoCall =>
        /\ again.raised = first.raised
        /\ again.vector = first.vector

C1_Witness ==
    /\ again # NoCall
    /\ restarted
    /\ ~again.raised
    /\ Len(again.vector) = MaxDim
    /\ again.vector = first.vector

\* C2 (SpecThreads).  Concurrent-call isolation: every thread that completes
\* universal_embedding returns the vector a single-threaded call with its text
\* and dimensionality returns.
C2_Isolation ==
    \A i \in ThreadIds :
        thr[i].pc = "done" =>
            thr[i].result
                = universal_embedding(rng, thr[i].text, thr[i].dimensions).vector

\* C3 (Spec).  Availability of POST /embed: every request is answered with
\* status 200, and when the try block raised the vector is the output of
\* universal_embedding for the request text.
C3_Availability ==
    last.kind = "embed" =>
        /\ last.status = 200
        /\ last.raised_in_try =>
               last.vector = universal_embedding(rng, last.text, DefaultDimensions).vector

\* C4 (SpecPairs).  Totality: no call of universal_embedding raises, whatever
\* the text and the positive dimensionality.
C4_Totality == IsCall(last) => ~last.raised

\* C5 (Spec).  The model field of a response names the path that produced the
\* vector: the trained model's name exactly when MODEL is present and
\* MODEL.encode returned the vector, "universal-hash-embedding" exactly when
\* MODEL is None and universal_embedding produced it, "fallback-universal"
\* exactly when the try block raised and universal_embedding produced it; the
\* vector of a response attributed to universal_embedding is its output for
\* the request text.
C5_ModelField ==
    IsResponse(last) =>
        /\ last.model \in {"all-MiniLM-L6-v2", "universal-hash-embedding", "fallback-universal"}
        /\ last.model = "all-MiniLM-L6-v2"
               <=> (MODEL # None /\ last.producer = "MODEL.encode")
        /\ last.model = "universal-hash-embedding"
               <=> (MODEL = None /\ last.producer = "universal_embedding")
        /\ last.model = "fallback-universal"
               <=> (last.raised_in_try /\ last.producer = "universal_embedding")
        /\ last.producer = "universal_embedding" =>
               last.vector = universal_embedding(rng, last.text, DefaultDimensions).vector
        /\ last.producer = "MODEL.encode" => last.vector = MODEL_encode(MODEL, last.text)

C5_Witness ==
    /\ IsResponse(last)
    /\ MODEL # None
    /\ last.raised_in_try
    /\ last.model = "fallback-universal"

\* C6 (Spec).  Dimensionality: universal_embedding(t, d) that returns, returns
\* exactly d elements, for every text and every generator state the service
\* reaches; the dims field of a response is the length of its vector, and it is
\* 384 in a response whose vector universal_embedding produced.
C6_Dimensionality ==
    /\ \A text \in Texts, dimensions \in Dims :
           LET ue == universal_embedding(rng, text, dimensions)
           IN  ~ue.raised => Len(ue.vector) = dimensions
    /\ IsResponse(last) =>
           /\ last.dims = Len(last.vector)
           /\ last.producer = "universal_embedding" => last.dims = 384

C6_Witness ==
    /\ IsResponse(last)
    /\ last.producer = "universal_embedding"
    /\ last.dims = 384
    /\ Len(last.vector) = 384

\* C7 (SpecPairs).  Normalisation: a returned vector has squared norm 1 within
\* the tolerance when the drawn vector is not the zero vector, and is the drawn
\* (zero) vector itself when it is.
UnitOrZero(r) ==
    Returned(r) =>
        IF SquaredNorm(r.raw) = 0
        THEN r.vector = r.raw
        ELSE Abs(SquaredNorm(r.vector) - Scale * Scale) <= NormTolerance

C7_Normalisation == UnitOrZero(first) /\ UnitOrZero(last)

C7_Witness ==
    /\ Returned(first)
    /\ SquaredNorm(first.raw) = 0
    /\ first.vector = first.raw
    /\ Returned(last)
    /\ SquaredNorm(last.raw) > Scale * Scale
    /\ Abs(SquaredNorm(last.vector) - Scale * Scale) <= NormTolerance

\* C8 (SpecCalls).  Generator locality: a call of universal_embedding leaves
\* the process-wide generator as it found it.
C8_Frame == [][TheCall => rng' = rng]_vars

\* C9 (SpecPairs).  Sensitivity as claimed: two calls with distinct texts and
\* the same dimensionality return vectors that are not equal.
C9_Sensitivity ==
    ( /\ Returned(first)
      /\ Returned(last)
      /\ first.dimensions = last.dimensions
      /\ first.text # last.text )
    => first.vector # last.vector

\* C9 (SpecPairs), amended.  The vector depends on the text only through the
\* seed: two calls with the same dimensionality whose texts have the same seed
\* return equal vectors, also when the texts differ.
C9_VectorFromSeed ==
    ( /\ Returned(first)
      /\ Returned(last)
      /\ first.dimensions = last.dimensions
      /\ SeedOf(first.text) = SeedOf(last.text) )
    => first.vector = last.vector

C9_Witness ==
    /\ Returned(first)
    /\ Returned(last)
    /\ first.dimensions = last.dimensions
    /\ first.dimensions = MaxDim
    /\ first.text # last.text
    /\ SeedOf(first.text) = SeedOf(last.text)
    /\ first.vector = last.vector

\* C10 (Spec).  Introspection as claimed: GET /health reports the trained
\* model exactly when the /embed response at that time carries a vector of the
\* trained model, and the fallback exactly when it carries a vector of
\* universal_embedding.
C10_HealthExactlyWhen ==
    IsResponse(last) =>
        /\ (Health(MODEL).model_loaded /\ Health(MODEL).model_type = "sentence-transformers")
               <=> last.producer = "MODEL.encode"
        /\ (~Health(MODEL).model_loaded /\ Health(MODEL).model_type = "universal-fallback")
               <=> last.producer = "universal_embedding"

\* What the introspection endpoints say in every state.
C10_State ==
    /\ Health(MODEL).model_loaded <=> MODEL # None
    /\ Health(MODEL).model_type = "sentence-transformers" <=> MODEL # None
    /\ Health(MODEL).model_type = "universal-fallback" <=> MODEL = None
    /\ last.kind = "health" => last = Health(MODEL)
    /\ last.kind = "model-info" => last = ModelInfo(MODEL)
    /\ (IsResponse(last) /\ last.producer = "MODEL.encode") =>
           /\ Health(MODEL).model_loaded
           /\ Health(MODEL).model_type = "sentence-transformers"
    /\ (IsResponse(last) /\ ~Health(MODEL).model_loaded) =>
           /\ last.producer = "universal_embedding"
           /\ last.model = "universal-hash-embedding"
    /\ MODEL = None =>
           /\ ModelInfo(MODEL).embedding_dimension = 384
           /\ IsResponse(last) => last.dims = ModelInfo(MODEL).embedding_dimension

\* C10 (Spec), amended.  MODEL is never reassigned; GET /health reports the
\* fallback exactly when MODEL is None, and then every /embed response carries
\* a vector of universal_embedding; a response carrying a vector of the trained
\* model is served only while GET /health reports the trained model; in the
\* fallback state GET /model-info reports 384, the dims of every response.
C10_Introspection == [][MODEL' = MODEL]_vars /\ []C10_State

C10_Witness ==
    /\ IsResponse(last)
    /\ Health(MODEL).model_loaded
    /\ Health(MODEL).model_type = "sentence-transformers"
    /\ last.producer = "universal_embedding"
    /\ last.model = "fallback-universal"

====
